---- MODULE Spec2Model ----
(***************************************************************************)
(* Model of social_dilemmas/envs/switch.py: the map generator              *)
(* (construct_map), the switch/door registry built by the constructor,     *)
(* the coordination state machine (custom_map_update), the toggle action   *)
(* (custom_action), the episode metrics and the step wrapper.              *)
(*                                                                         *)
(* Layout rows are sequences of one-character strings.  The code indexes   *)
(* rows and columns from 0; the helpers Row and At keep that convention.   *)
(* Rewards are counted in tenths, so the threshold 0.1 is the integer 1.   *)
(***************************************************************************)
EXTENDS Integers, Sequences, FiniteSets, TLC

\* ---- bounds of the model ------------------------------------------------
MaxSwitches == 3
MaxTimestep == 3
\* the bounds of the specification that records what step returns
MaxReturnSwitches == 1
MaxReturnSteps == 2

\* ---- program constants ---------------------------------------------------
TOGGLE_SWITCH == 1
GIVE_EXTERNAL_SWITCH_REWARD == 0
NaN == -1
SuccessThreshold == 1
RewardValues == {0, 1, 2}

\* Agents created by setup_agents ("agent-" + str(i)), for num_agents = 2.
Agents == {"agent-0", "agent-1"}

\* ---- SwitchMapElements (row templates of social_dilemmas/maps.py) --------
top_row == <<"@", "@", "@", "D", "@", "@", "@">>
empty_row == <<"@", " ", " ", " ", " ", " ", "@">>
one_switch_row == <<"@", "s", " ", " ", " ", " ", "@">>
two_switch_row == <<"@", "s", " ", " ", " ", "s", "@">>
bottom_row == <<"@", "@", "@", "D", "@", "@", "@">>

\* ---- helpers --------------------------------------------------------------
Max(a, b) == IF a >= b THEN a ELSE b

\* int(math.ceil(k / 2)) for a non-negative integer k
CeilHalf(k) == (k + 1) \div 2

\* 0-based indexing of a layout
Row(m, r) == m[r + 1]
At(m, r, c) == m[r + 1][c + 1]

\* ---- construct_map ---------------------------------------------------------
\* the for loop of construct_map: i rows still to append, remaining switches
RECURSIVE AppendRows(_, _, _)
AppendRows(partial_map, i, remaining) ==
    IF i = 0 THEN partial_map
    ELSE IF remaining = 0
         THEN AppendRows(Append(partial_map, empty_row), i - 1, remaining)
    ELSE IF remaining = 1
         THEN AppendRows(Append(partial_map, one_switch_row), i - 1, remaining - 1)
    ELSE IF remaining > 1
         THEN AppendRows(Append(partial_map, two_switch_row), i - 1, remaining - 2)
    ELSE AppendRows(partial_map, i - 1, remaining)

\* variant: no minimum of one row
NumRows_NoMinimum(n) == CeilHalf(n)

\* variant: the row count is rounded down
NumRows_Floor(n) == Max(1, n \div 2)


NumRows(n) == Max(1, CeilHalf(n))

\* variant: the middle row is rounded down
MiddleRow_Floor(num_rows) == num_rows \div 2


MiddleRow(num_rows) == CeilHalf(num_rows)

\* the layout before the spawn marker is written
PartialMap(n) == Append(AppendRows(<<top_row>>, NumRows(n), n), bottom_row)

\* partial_map[middle_row][:3] + "P" + partial_map[middle_row][4:]
InjectSpawn(row) == SubSeq(row, 1, 3) \o <<"P">> \o SubSeq(row, 5, Len(row))

construct_map(n) ==
    LET pm == PartialMap(n)
        mr == MiddleRow(NumRows(n))
    IN  [k \in 1..Len(pm) |-> IF k = mr + 1 THEN InjectSpawn(pm[k]) ELSE pm[k]]

\* ---- registry scan of the constructor ---------------------------------------
Shape0(m) == Len(m)
Shape1(m) == Len(m[1])
Coords(m) == (0..(Shape0(m) - 1)) \X (0..(Shape1(m) - 1))

\* the cells in the order of the nested row/col loops
CellSeq(m) ==
    [k \in 1..(Shape0(m) * Shape1(m)) |->
        <<(k - 1) \div Shape1(m), (k - 1) % Shape1(m)>>]

IsSwitchCell(m, p) == At(m, p[1], p[2]) \in {"s", "S"}
IsDoorCell(m, p) == At(m, p[1], p[2]) \in {"d", "D"}

\* variant: the scan records only the switches that are on
ScanSwitches_OnlyOn(m) == SelectSeq(CellSeq(m), LAMBDA p : At(m, p[1], p[2]) = "S")


ScanSwitches(m) == SelectSeq(CellSeq(m), LAMBDA p : IsSwitchCell(m, p))
ScanDoors(m) == SelectSeq(CellSeq(m), LAMBDA p : IsDoorCell(m, p))
ScanInitialState(m) ==
    [p \in {q \in Coords(m) : IsSwitchCell(m, q) \/ IsDoorCell(m, q)} |->
        At(m, p[1], p[2])]

Range(s) == {s[i] : i \in 1..Len(s)}

VARIABLES
    num_switches,                 \* args.num_switches
    base_map,                     \* the constructed layout
    world_map,                    \* the shared grid
    initial_map_state,
    switch_locations,
    door_locations,
    switch_count,
    prev_activated_switch_count,
    timestep,
    total_pulled_on,
    total_pulled_off,
    timestep_first_switch_pull,
    timestep_last_switch_pull,
    switches_on_at_termination,
    total_successes,
    reward_this_turn,             \* the agents' reward_this_turn on entry to custom_map_update
    returned_rewards,             \* the rewards returned by the last step
    returned_info                 \* the info dictionary returned by the last step

registry == <<num_switches, base_map, initial_map_state, switch_locations,
              door_locations, switch_count>>
metrics == <<timestep, total_pulled_on, total_pulled_off,
             timestep_first_switch_pull, timestep_last_switch_pull,
             switches_on_at_termination, total_successes>>
returned == <<reward_this_turn, returned_rewards, returned_info>>
vars == <<registry, world_map, prev_activated_switch_count, metrics, returned>>

\* nothing returned: the empty dictionary
NoneReturned == <<>>

\* ---- SwitchEnv.__init__ ------------------------------------------------------
Init ==
    /\ num_switches \in 0..MaxSwitches
    /\ base_map = construct_map(num_switches)
    /\ world_map = [p \in Coords(base_map) |-> " "]
    /\ initial_map_state = ScanInitialState(base_map)
    /\ switch_locations = ScanSwitches(base_map)
    /\ door_locations = ScanDoors(base_map)
    /\ switch_count = Len(ScanSwitches(base_map))
    /\ prev_activated_switch_count = 0
    /\ timestep = 0
    /\ total_pulled_on = 0
    /\ total_pulled_off = 0
    /\ timestep_first_switch_pull = NaN
    /\ timestep_last_switch_pull = NaN
    /\ switches_on_at_termination = 0
    /\ total_successes = 0
    /\ reward_this_turn = NoneReturned
    /\ returned_rewards = NoneReturned
    /\ returned_info = NoneReturned

\* ---- engine primitives --------------------------------------------------------
\* update_map: batch-apply a list of (row, col, symbol)
RECURSIVE update_map(_, _)
update_map(grid, updates) ==
    IF updates = <<>> THEN grid
    ELSE update_map([grid EXCEPT ![<<updates[1][1], updates[1][2]>>] = updates[1][3]],
                    Tail(updates))

\* the grid rebuilt by the engine's reset: walls of the layout, blank elsewhere
BuildWalls(m) == [p \in Coords(m) |-> IF At(m, p[1], p[2]) = "@" THEN "@" ELSE " "]

\* update_map_fire with beam_width 1 and a beam that reaches the one cell `target`
\* in front of the agent: a cell of cell_types[i] is replaced by update_char[i]
update_map_fire(grid, target, fire_len, cell_types, update_char) ==
    IF fire_len >= 1 /\ \E i \in 1..Len(cell_types) : grid[target] = cell_types[i]
    THEN LET i == CHOOSE j \in 1..Len(cell_types) : grid[target] = cell_types[j]
         IN  <<(<<target[1], target[2], update_char[i]>>)>>
    ELSE <<>>

\* variant: every cell outside the snapshot is blanked
RestoreInitialState_BlanksRest(grid, snapshot) ==
    [p \in DOMAIN grid |-> IF p \in DOMAIN snapshot THEN snapshot[p] ELSE " "]

\* ---- custom_reset ---------------------------------------------------------------
\* for coordinates, char in initial_map_state.items(): world_map[coordinates] = char
RestoreInitialState(grid, snapshot) ==
    [p \in DOMAIN grid |-> IF p \in DOMAIN snapshot THEN snapshot[p] ELSE grid[p]]

\* variant: the success counter is not reset
custom_reset_KeepsSuccesses(grid) ==
    /\ world_map' = RestoreInitialState(grid, initial_map_state)
    /\ prev_activated_switch_count' = 0
    /\ timestep' = 0
    /\ total_pulled_on' = 0
    /\ total_pulled_off' = 0
    /\ timestep_first_switch_pull' = NaN
    /\ timestep_last_switch_pull' = NaN
    /\ switches_on_at_termination' = 0
    /\ total_successes' = total_successes


custom_reset(grid) ==
    /\ world_map' = RestoreInitialState(grid, initial_map_state)
    /\ prev_activated_switch_count' = 0
    /\ timestep' = 0
    /\ total_pulled_on' = 0
    /\ total_pulled_off' = 0
    /\ timestep_first_switch_pull' = NaN
    /\ timestep_last_switch_pull' = NaN
    /\ switches_on_at_termination' = 0
    /\ total_successes' = 0

\* the engine's reset: rebuild the grid, then the custom_reset hook
Reset ==
    /\ custom_reset(BuildWalls(base_map))
    /\ reward_this_turn' = NoneReturned
    /\ returned_rewards' = NoneReturned
    /\ returned_info' = NoneReturned
    /\ UNCHANGED registry

\* ---- custom_action -----------------------------------------------------------------
\* an agent's action for one timestep: a move/turn/stay of the engine, or
\* TOGGLE_SWITCH with the cell its length-1 beam strikes
BeamTargets == Range(switch_locations) \cup Range(door_locations)
ActionChoices ==
    {[kind |-> "MOVE", target |-> <<0, 0>>]}
        \cup {[kind |-> "TOGGLE_SWITCH", target |-> t] : t \in BeamTargets}

\* variant: the replacement symbols are listed in the order of the cell types
custom_action_NoSwap(grid, action) ==
    update_map_fire(grid, action.target, TOGGLE_SWITCH, <<"s", "S">>, <<"s", "S">>)

\* variant: a struck switch is always turned on
custom_action_AlwaysOn(grid, action) ==
    update_map_fire(grid, action.target, TOGGLE_SWITCH, <<"s", "S">>, <<"S", "S">>)


custom_action(grid, action) ==
    update_map_fire(grid, action.target, TOGGLE_SWITCH, <<"s", "S">>, <<"S", "s">>)

\* Agents stand on distinct walkable cells and a length-1 beam strikes a cell next
\* to the agent: the toggling agents can be placed on distinct walkable
\* neighbours of their targets, and the others on the cells left over.
IsWalkable(p) == p \in Coords(base_map) /\ At(base_map, p[1], p[2]) \in {" ", "P"}
Walkable == {p \in Coords(base_map) : IsWalkable(p)}
FiringCells(target) ==
    {p \in {<<target[1] - 1, target[2]>>, <<target[1] + 1, target[2]>>,
            <<target[1], target[2] - 1>>, <<target[1], target[2] + 1>>} : IsWalkable(p)}
RECURSIVE Placeable(_, _, _)
Placeable(actions, todo, taken) ==
    IF todo = {}
    THEN Cardinality(Walkable \ taken) >= Cardinality(Agents) - Cardinality(taken)
    ELSE LET a == CHOOSE x \in todo : TRUE
         IN  \E p \in FiringCells(actions[a].target) \ taken :
                 Placeable(actions, todo \ {a}, taken \cup {p})
CanFire(actions) ==
    Placeable(actions, {a \in Agents : actions[a].kind = "TOGGLE_SWITCH"}, {})

\* the action mappings a timestep can submit
JointActions == {actions \in [Agents -> ActionChoices] : CanFire(actions)}

\* variant: only the first agent's custom action is resolved
update_custom_moves_FirstOnly(grid, actions, order) ==
    IF order = <<>> THEN grid
    ELSE IF actions[Head(order)].kind = "TOGGLE_SWITCH"
         THEN update_map(grid, custom_action(grid, actions[Head(order)]))
         ELSE grid

\* the engine's update_custom_moves: the agents' custom actions are resolved one
\* after the other in the sequence `order`, each on the grid left by the previous
RECURSIVE update_custom_moves(_, _, _)
update_custom_moves(grid, actions, order) ==
    IF order = <<>> THEN grid
    ELSE LET action == actions[Head(order)]
             next == IF action.kind = "TOGGLE_SWITCH"
                     THEN update_map(grid, custom_action(grid, action))
                     ELSE grid
         IN  update_custom_moves(next, actions, Tail(order))

\* ---- custom_map_update ---------------------------------------------------------------
RECURSIVE CountOn(_, _)
CountOn(grid, locations) ==
    IF locations = <<>> THEN 0
    ELSE (IF grid[Head(locations)] = "S" THEN 1 ELSE 0) + CountOn(grid, Tail(locations))

\* variant: the scan counts the switches holding the off symbol
ActivatedSwitchCount_CountsOff(grid) ==
    Len(SelectSeq(switch_locations, LAMBDA p : grid[p] = "s"))


ActivatedSwitchCount(grid) == CountOn(grid, switch_locations)

\* variant: the doors open as soon as one switch is on
DoorChar_AnySwitch(activated_switch_count) ==
    IF activated_switch_count >= 1 THEN "d" ELSE "D"


DoorChar(activated_switch_count) ==
    IF activated_switch_count = switch_count THEN "d" ELSE "D"

DoorUpdates(door_char) ==
    [i \in 1..Len(door_locations) |->
        <<door_locations[i][1], door_locations[i][2], door_char>>]

\* variants: the difference is accumulated without max(0, .) / with the wrong sign
PulledOn_Signed(switch_difference) == switch_difference
PulledOff_WrongSign(switch_difference) == Max(0, switch_difference)


\* variant: every change counts as a pull on
PulledOn_Abs(switch_difference) == Max(switch_difference, -switch_difference)


PulledOn(switch_difference) == Max(0, switch_difference)
PulledOff(switch_difference) == Max(0, -switch_difference)

\* variant: first-pull is overwritten by every pull
FirstPull_Overwrites(switch_difference) ==
    IF switch_difference # 0 THEN timestep ELSE timestep_first_switch_pull


\* variant: a first pull at timestep 0 is taken for "unset"
FirstPull_ZeroSentinel(switch_difference) ==
    IF switch_difference # 0
         /\ (timestep_first_switch_pull = NaN \/ timestep_first_switch_pull = 0)
    THEN timestep
    ELSE timestep_first_switch_pull


FirstPull(switch_difference) ==
    IF switch_difference # 0 /\ timestep_first_switch_pull = NaN
    THEN timestep
    ELSE timestep_first_switch_pull

\* variant: the pull is stamped with the incremented timestep
LastPull_AfterIncrement(switch_difference) ==
    IF switch_difference # 0 THEN timestep + 1 ELSE timestep_last_switch_pull


LastPull(switch_difference) ==
    IF switch_difference # 0 THEN timestep ELSE timestep_last_switch_pull

\* variant: the snapshot is taken only when the count grows
SwitchesOnAtTermination_OnlyUp(switch_difference, activated_switch_count) ==
    IF switch_difference > 0 THEN activated_switch_count
    ELSE switches_on_at_termination


SwitchesOnAtTermination(switch_difference, activated_switch_count) ==
    IF switch_difference # 0 THEN activated_switch_count
    ELSE switches_on_at_termination

\* variant: the reward is given whatever the flag says
ExternalSwitchReward_FlagIgnored(switch_difference) == switch_difference


ExternalSwitchReward(switch_difference) ==
    switch_difference * GIVE_EXTERNAL_SWITCH_REWARD

custom_map_update(grid) ==
    LET activated_switch_count == ActivatedSwitchCount(grid)
        switch_difference == activated_switch_count - prev_activated_switch_count
    IN  /\ prev_activated_switch_count' = activated_switch_count
        /\ world_map' = update_map(grid, DoorUpdates(DoorChar(activated_switch_count)))
        /\ timestep_last_switch_pull' = LastPull(switch_difference)
        /\ timestep_first_switch_pull' = FirstPull(switch_difference)
        /\ total_pulled_on' = total_pulled_on + PulledOn(switch_difference)
        /\ total_pulled_off' = total_pulled_off + PulledOff(switch_difference)
        /\ switches_on_at_termination' =
               SwitchesOnAtTermination(switch_difference, activated_switch_count)

\* ---- step --------------------------------------------------------------------------------
Orders == {o \in [1..Cardinality(Agents) -> Agents] :
              \A i, j \in 1..Cardinality(Agents) : o[i] = o[j] => i = j}

\* rewards returned by the engine's step, in tenths: what the agent collected
\* in the engine plus the external switch reward added by custom_map_update
Rewards(base_reward, grid) ==
    [a \in Agents |->
        base_reward[a]
          + 10 * ExternalSwitchReward(ActivatedSwitchCount(grid)
                                        - prev_activated_switch_count)]

\* variant: a reward of exactly the threshold counts
Succeeded_AtLeast(rewards, first_agent) == rewards[first_agent] >= SuccessThreshold


Succeeded(rewards, first_agent) == rewards[first_agent] > SuccessThreshold

StepWith(actions, order, first_agent, base_reward) ==
    LET grid == update_custom_moves(world_map, actions, order)
    IN  /\ timestep < MaxTimestep
        /\ custom_map_update(grid)
        /\ total_successes' =
               total_successes
                 + (IF Succeeded(Rewards(base_reward, grid), first_agent) THEN 1 ELSE 0)
        /\ timestep' = timestep + 1
        /\ UNCHANGED registry

Step ==
    \E actions \in JointActions :
      \E order \in Orders, first_agent \in Agents,
         base_reward \in [Agents -> RewardValues] :
        /\ StepWith(actions, order, first_agent, base_reward)
        /\ UNCHANGED returned

Next == Reset \/ Step

Spec == Init /\ [][Next]_vars

\* ---- step, with what it returns ---------------------------------------------------------------
\* variant: total_pulled_on and total_pulled_off change places
create_extra_info_dict_Swapped ==
    [switches_on_at_termination |-> switches_on_at_termination,
     total_pulled_on |-> total_pulled_off,
     total_pulled_off |-> total_pulled_on,
     timestep_first_switch_pull |-> timestep_first_switch_pull,
     timestep_last_switch_pull |-> timestep_last_switch_pull,
     total_successes |-> total_successes]

create_extra_info_dict ==
    [switches_on_at_termination |-> switches_on_at_termination,
     total_pulled_on |-> total_pulled_on,
     total_pulled_off |-> total_pulled_off,
     timestep_first_switch_pull |-> timestep_first_switch_pull,
     timestep_last_switch_pull |-> timestep_last_switch_pull,
     total_successes |-> total_successes]

\* the info dictionary of the engine's step
EngineInfo == <<>>

\* {**info, **extra_info}
MergeDicts(info, extra_info) ==
    [k \in DOMAIN info \cup DOMAIN extra_info |->
        IF k \in DOMAIN extra_info THEN extra_info[k] ELSE info[k]]

\* the step of StepWith, recording the rewards before and after custom_map_update
\* and the info dictionary built once the success counter is updated
StepReturning ==
    /\ timestep < MaxReturnSteps
    /\ \E actions \in JointActions :
         \E order \in Orders, first_agent \in Agents,
            base_reward \in [Agents -> RewardValues] :
           /\ StepWith(actions, order, first_agent, base_reward)
           /\ reward_this_turn' = base_reward
           /\ returned_rewards' =
                  Rewards(base_reward, update_custom_moves(world_map, actions, order))
           /\ returned_info' =
                  MergeDicts(EngineInfo, [a \in {first_agent} |-> create_extra_info_dict'])

InitReturns == Init /\ num_switches <= MaxReturnSwitches

NextReturns == Reset \/ StepReturning

SpecReturns == InitReturns /\ [][NextReturns]_vars

\* ---- vocabulary of the properties ------------------------------------------------------------
\* the switches (indices into switch_locations) that hold the on symbol
SwitchesOn == {i \in 1..Len(switch_locations) : world_map[switch_locations[i]] = "S"}
AllSwitchesOff == \A i \in 1..Len(switch_locations) : world_map[switch_locations[i]] = "s"
AllDoors(char) == \A i \in 1..Len(door_locations) : world_map[door_locations[i]] = char
\* a timestep has been executed between this state and the next
IsTimestep == timestep' = timestep + 1

\* C1: after every custom_map_update the doors are a function of the number of
\* switches that are on: all open when it equals switch_count, all closed when
\* it is smaller, never a mix.
DoorsFollowCount ==
    /\ Cardinality(SwitchesOn) = switch_count => AllDoors("d")
    /\ Cardinality(SwitchesOn) < switch_count => AllDoors("D")
    /\ AllDoors("d") \/ AllDoors("D")
C1_DoorsPureFunction == [][IsTimestep => DoorsFollowCount']_vars
C1_Witness ==
    /\ timestep > 0
    /\ switch_count >= 2
    /\ Cardinality(SwitchesOn) = switch_count
    /\ Len(door_locations) >= 2
    /\ AllDoors("d")

\* C2: prev_activated_switch_count equals the number of registered switch cells
\* holding the on symbol and lies in 0..switch_count, after any sequence of
\* resets and timesteps.
C2_CounterMatchesGrid ==
    /\ prev_activated_switch_count = Cardinality(SwitchesOn)
    /\ prev_activated_switch_count \in 0..switch_count
C2_Witness ==
    /\ switch_count >= 3
    /\ prev_activated_switch_count = 2
    /\ Cardinality(SwitchesOn) = 2
    /\ total_pulled_off > 0

\* C3: custom_reset restores every registered cell to the snapshot and zeroes
\* the counter and all metrics; a reset right after a reset changes nothing.
ResetState ==
    /\ \A p \in DOMAIN initial_map_state : world_map[p] = initial_map_state[p]
    /\ prev_activated_switch_count = 0
    /\ timestep = 0
    /\ total_pulled_on = 0
    /\ total_pulled_off = 0
    /\ switches_on_at_termination = 0
    /\ total_successes = 0
    /\ timestep_first_switch_pull = NaN
    /\ timestep_last_switch_pull = NaN
C3_ResetCompleteIdempotent ==
    [][Reset => (ResetState' /\ (ResetState => UNCHANGED vars))]_vars
C3_Witness ==
    /\ ResetState
    /\ switch_count >= 2
    /\ Len(door_locations) >= 2

\* the pull timestamps after a timestep that records a pull
PullRecorded ==
    /\ timestep_last_switch_pull' = timestep
    /\ timestep_first_switch_pull' =
           (IF timestep_first_switch_pull = NaN THEN timestep
            ELSE timestep_first_switch_pull)
PullNotRecorded ==
    /\ timestep_first_switch_pull' = timestep_first_switch_pull
    /\ timestep_last_switch_pull' = timestep_last_switch_pull

\* C4 as stated: in every timestep in which some switch is toggled (some switch
\* cell changes its symbol) last-pull becomes that timestep and first-pull
\* becomes it when unset and keeps its value otherwise; in a timestep without
\* a toggle both keep their value.
C4_PullOnEveryToggle ==
    [][IsTimestep =>
          IF SwitchesOn' # SwitchesOn THEN PullRecorded ELSE PullNotRecorded]_vars

\* C4 amended: the timestamps follow the change of the NUMBER of switches that
\* are on: a timestep that changes it sets last-pull, and first-pull when
\* unset; a timestep that leaves it unchanged, toggles that cancel included,
\* records nothing.
C4_PullOnCountChange ==
    [][IsTimestep =>
          IF Cardinality(SwitchesOn') # Cardinality(SwitchesOn)
          THEN PullRecorded ELSE PullNotRecorded]_vars
C4_Witness ==
    /\ timestep_first_switch_pull # NaN
    /\ timestep_last_switch_pull > timestep_first_switch_pull
    /\ timestep_last_switch_pull = timestep - 1

\* the custom actions of a timestep give the same grid in whatever order the
\* engine resolves them
OrderIndependent ==
    \A actions \in JointActions : \A o1, o2 \in Orders :
        update_custom_moves(world_map, actions, o1)
            = update_custom_moves(world_map, actions, o2)
\* two agents toggle two distinct switches and no other agent strikes a switch
TogglesSwitch(action) ==
    action.kind = "TOGGLE_SWITCH" /\ action.target \in Range(switch_locations)
TwoAgentsTwoSwitches(actions) ==
    \E a, b \in Agents :
        /\ a # b
        /\ TogglesSwitch(actions[a]) /\ TogglesSwitch(actions[b])
        /\ actions[a].target # actions[b].target
        /\ \A c \in Agents \ {a, b} : ~TogglesSwitch(actions[c])
\* the transition is the step that submits `actions`, resolved in `order`
IsStepOf(actions, order) ==
    \E first_agent \in Agents, base_reward \in [Agents -> RewardValues] :
        StepWith(actions, order, first_agent, base_reward)
SimultaneousOutcome ==
    /\ prev_activated_switch_count' = 2
    /\ AllDoors("d")'
    /\ total_pulled_on' = total_pulled_on + 2
    /\ timestep_last_switch_pull' = timestep
    /\ OrderIndependent

\* C5 as stated: with switch_count = 2 and both switches off, a timestep in
\* which two agents toggle the two switches gives count 2, open doors,
\* total_pulled_on + 2 and first-pull = last-pull = that timestep, in any order.
C5_SimultaneousSetsBoth ==
    [][(switch_count = 2 /\ AllSwitchesOff /\ IsTimestep) =>
          \A actions \in JointActions : \A order \in Orders :
              (TwoAgentsTwoSwitches(actions) /\ IsStepOf(actions, order))
                  => (SimultaneousOutcome /\ timestep_first_switch_pull' = timestep)]_vars

\* C5 amended: as above, but first-pull becomes the current timestep only when
\* no pull was recorded earlier in the episode; otherwise it keeps its value.
C5_SimultaneousActivation ==
    [][(switch_count = 2 /\ AllSwitchesOff /\ IsTimestep) =>
          \A actions \in JointActions : \A order \in Orders :
              (TwoAgentsTwoSwitches(actions) /\ IsStepOf(actions, order))
                  => (SimultaneousOutcome
                        /\ timestep_first_switch_pull' =
                               (IF timestep_first_switch_pull = NaN THEN timestep
                                ELSE timestep_first_switch_pull))]_vars
C5_Witness ==
    /\ switch_count = 2
    /\ Cardinality(SwitchesOn) = 2
    /\ AllDoors("d")
    /\ total_pulled_on = 2
    /\ total_pulled_off = 0
    /\ timestep_first_switch_pull = timestep - 1
    /\ timestep_last_switch_pull = timestep - 1

\* C6: total_pulled_on and total_pulled_off never decrease from one timestep of
\* an episode to the next.
C6_PullCountersMonotone ==
    [][IsTimestep =>
          /\ total_pulled_on' >= total_pulled_on
          /\ total_pulled_off' >= total_pulled_off]_vars
C6_Witness ==
    /\ total_pulled_on >= 2
    /\ total_pulled_off >= 1

\* C7: after every custom_map_update, also one in which no switch changed,
\* switches_on_at_termination is the number of switches that are on.
C7_TerminationSnapshot ==
    [][IsTimestep => switches_on_at_termination' = Cardinality(SwitchesOn')]_vars
C7_Witness ==
    /\ timestep >= 2
    /\ timestep_last_switch_pull # NaN
    /\ timestep_last_switch_pull < timestep - 1
    /\ switches_on_at_termination >= 1
    /\ total_pulled_off >= 1

\* C8: switch_count = 3, all off after reset; one switch on, then a second one
\* on, then one of them off: counts 1, 2, 1, doors closed after each timestep,
\* and at the end total_pulled_on = 2 and total_pulled_off = 1.
ScenarioStart == switch_count = 3 /\ ResetState /\ AllSwitchesOff
ScenarioAfterFirst ==
    /\ switch_count = 3
    /\ timestep = 1
    /\ Cardinality(SwitchesOn) = 1
    /\ total_pulled_on = 1
    /\ total_pulled_off = 0
ScenarioAfterSecond ==
    /\ switch_count = 3
    /\ timestep = 2
    /\ Cardinality(SwitchesOn) = 2
    /\ total_pulled_on = 2
    /\ total_pulled_off = 0
    /\ timestep_first_switch_pull = 0
    /\ timestep_last_switch_pull = 1
ScenarioOutcome(count, pulled_on, pulled_off) ==
    /\ prev_activated_switch_count' = count
    /\ AllDoors("D")'
    /\ Len(door_locations) > 0
    /\ total_pulled_on' = pulled_on
    /\ total_pulled_off' = pulled_off
C8_OnOnOffScenario ==
    [][/\ (ScenarioStart /\ IsTimestep /\ Cardinality(SwitchesOn') = 1)
              => ScenarioOutcome(1, 1, 0)
       /\ (ScenarioAfterFirst /\ IsTimestep /\ Cardinality(SwitchesOn') = 2
              /\ SwitchesOn \subseteq SwitchesOn')
              => ScenarioOutcome(2, 2, 0)
       /\ (ScenarioAfterSecond /\ IsTimestep /\ Cardinality(SwitchesOn') = 1
              /\ SwitchesOn' \subseteq SwitchesOn)
              => ScenarioOutcome(1, 2, 1)]_vars
C8_Witness ==
    /\ switch_count = 3
    /\ timestep = 3
    /\ prev_activated_switch_count = 1
    /\ AllDoors("D")
    /\ total_pulled_on = 2
    /\ total_pulled_off = 1
    /\ timestep_first_switch_pull = 0
    /\ timestep_last_switch_pull = 2

\* ---- properties of construct_map ----------------------------------------------------------------
CountSymbols(m, symbols) ==
    Cardinality({p \in Coords(m) : At(m, p[1], p[2]) \in symbols})
InteriorRowCount(n) == IF n = 0 THEN 1 ELSE (n \div 2) + (n % 2)
\* the template of an interior row when `remaining` switches are still to place
TemplateFor(remaining) ==
    IF remaining >= 2 THEN two_switch_row
    ELSE IF remaining = 1 THEN one_switch_row
    ELSE empty_row
\* a row is a template, but for the spawn marker that may stand in column 3
IsTemplateRow(row, template) ==
    /\ Len(row) = Len(template)
    /\ \A c \in 1..Len(row) : row[c] = template[c] \/ (c = 4 /\ row[c] = "P")

\* C9: construct_map(n) is the top border, max(1, ceil(n/2)) interior rows filled
\* front to back with the two-switch, one-switch and empty templates, and the
\* bottom border; the layout holds exactly n switch symbols.
C9_LayoutRows ==
    LET n == num_switches
        rows == InteriorRowCount(n)
    IN  /\ Len(base_map) = rows + 2
        /\ Row(base_map, 0) = top_row
        /\ Row(base_map, rows + 1) = bottom_row
        /\ \A i \in 1..rows :
              IsTemplateRow(Row(base_map, i), TemplateFor(n - 2 * (i - 1)))
        /\ CountSymbols(base_map, {"s", "S"}) = n
C9_Witness ==
    /\ num_switches = 3
    /\ Len(base_map) = 4
    /\ IsTemplateRow(Row(base_map, 2), one_switch_row)
    /\ timestep > 0

\* C10: the layout holds exactly one spawn marker, in column 3 of the row of
\* index ceil(interior_row_count / 2); that row is an interior row, and the
\* marker replaces no switch or door symbol.
C10_SpawnMarker ==
    LET rows == InteriorRowCount(num_switches)
        mr == (rows \div 2) + (rows % 2)
    IN  /\ CountSymbols(base_map, {"P"}) = 1
        /\ mr \in 1..rows
        /\ At(base_map, mr, 3) = "P"
        /\ At(PartialMap(num_switches), mr, 3) \notin {"s", "S", "d", "D"}
        /\ CountSymbols(base_map, {"d", "D"})
               = CountSymbols(<<top_row, bottom_row>>, {"d", "D"})
        /\ CountSymbols(base_map, {"s", "S"}) = switch_count
C10_Witness ==
    /\ num_switches = 3
    /\ At(base_map, 1, 3) = "P"
    /\ At(base_map, 2, 3) = " "
    /\ timestep > 0

\* C11: construct_map(0) is the two borders around one empty row; with no switch
\* the count is 0 = switch_count in every state, no pull is ever recorded and
\* every timestep leaves the doors open; the door batch of custom_map_update
\* has one entry per registered door and no other, so none when no door is
\* registered.
ZeroSwitchLayout ==
    /\ Len(base_map) = 3
    /\ Row(base_map, 0) = top_row
    /\ IsTemplateRow(Row(base_map, 1), empty_row)
    /\ Row(base_map, 2) = bottom_row
    /\ switch_count = 0
    /\ switch_locations = <<>>
ZeroSwitchState ==
    /\ prev_activated_switch_count = switch_count
    /\ Cardinality(SwitchesOn) = 0
    /\ total_pulled_on = 0
    /\ total_pulled_off = 0
    /\ switches_on_at_termination = 0
    /\ timestep_first_switch_pull = NaN
    /\ timestep_last_switch_pull = NaN
    /\ timestep > 0 => AllDoors("d")
DoorBatchIsRegistry ==
    \A char \in {"d", "D"} :
        /\ Len(DoorUpdates(char)) = Len(door_locations)
        /\ \A i \in 1..Len(door_locations) :
              /\ <<DoorUpdates(char)[i][1], DoorUpdates(char)[i][2]>> = door_locations[i]
              /\ DoorUpdates(char)[i][3] = char
RegistryMatchesLayout ==
    /\ switch_count = CountSymbols(base_map, {"s", "S"})
    /\ Len(switch_locations) = switch_count
    /\ Range(switch_locations)
           = {p \in Coords(base_map) : At(base_map, p[1], p[2]) \in {"s", "S"}}
    /\ Range(door_locations)
           = {p \in Coords(base_map) : At(base_map, p[1], p[2]) \in {"d", "D"}}
    /\ DOMAIN initial_map_state = Range(switch_locations) \cup Range(door_locations)
    /\ \A p \in DOMAIN initial_map_state : initial_map_state[p] = At(base_map, p[1], p[2])
C14_RegistryFixed ==
    /\ []RegistryMatchesLayout
    /\ [][/\ UNCHANGED registry
          /\ IsTimestep =>
                 (AllDoors("d")' <=> Cardinality(SwitchesOn') = Len(switch_locations))]_vars
C14_Witness ==
    /\ switch_count = 3
    /\ Len(switch_locations) = 3
    /\ timestep = 2
    /\ Cardinality(SwitchesOn) = 2
    /\ AllDoors("D")

\* C16: custom_map_update writes door cells only (so the switches keep their
\* symbols), a whole timestep changes registered cells only, and custom_reset
\* changes only the cells of the snapshot in the grid it is given.
DoorBatchWritesDoorsOnly ==
    \A char \in {"d", "D"} :
        LET grid == update_map(world_map, DoorUpdates(char))
        IN  /\ DOMAIN grid = DOMAIN world_map
            /\ \A p \in DOMAIN world_map \ Range(door_locations) : grid[p] = world_map[p]
C16_WritesRegisteredCellsOnly ==
    /\ []DoorBatchWritesDoorsOnly
    /\ [][/\ IsTimestep =>
                 \A p \in DOMAIN world_map
                            \ (Range(switch_locations) \cup Range(door_locations)) :
                     world_map'[p] = world_map[p]
          /\ Reset =>
                 \A p \in DOMAIN world_map' \ DOMAIN initial_map_state :
                     world_map'[p] = BuildWalls(base_map)[p]]_vars
C16_Witness ==
    /\ timestep = 0
    /\ ResetState
    /\ world_map[<<0, 0>>] = "@"
    /\ switch_count = 1

\* C17: the toggle strikes one cell; a struck switch swaps its symbol, any other
\* struck cell and every other cell keep theirs; two toggles of one switch, in
\* two timesteps or by two agents in one, restore it.
ToggleOf(target) == [kind |-> "TOGGLE_SWITCH", target |-> target]
ToggleSwaps(target) ==
    LET once == update_map(world_map, custom_action(world_map, ToggleOf(target)))
        twice == update_map(once, custom_action(once, ToggleOf(target)))
    IN  /\ Len(custom_action(world_map, ToggleOf(target))) <= 1
        /\ world_map[target] = "s" => once[target] = "S"
        /\ world_map[target] = "S" => once[target] = "s"
        /\ world_map[target] \notin {"s", "S"} => once = world_map
        /\ \A p \in DOMAIN world_map \ {target} : once[p] = world_map[p]
        /\ twice = world_map
SameSwitchTwice(actions) ==
    /\ Cardinality({a \in Agents : actions[a].kind = "TOGGLE_SWITCH"}) = 2
    /\ \A a, b \in Agents :
          (actions[a].kind = "TOGGLE_SWITCH" /\ actions[b].kind = "TOGGLE_SWITCH")
              => actions[a].target = actions[b].target
ToggleLaw ==
    /\ TOGGLE_SWITCH = 1
    /\ \A target \in BeamTargets : ToggleSwaps(target)
    /\ \A actions \in JointActions : \A order \in Orders :
           SameSwitchTwice(actions)
               => update_custom_moves(world_map, actions, order) = world_map
C17_ToggleSwaps ==
    /\ []ToggleLaw
    /\ [][IsTimestep =>
             \A p \in DOMAIN world_map \ Range(door_locations) :
                 world_map'[p] # world_map[p]
                     => {world_map[p], world_map'[p]} = {"s", "S"}]_vars
C17_Witness ==
    /\ switch_count = 1
    /\ Cardinality(SwitchesOn) = 1
    /\ total_pulled_on = 2
    /\ total_pulled_off = 1

\* C18: total_pulled_on - total_pulled_off is the number of switches on, and a
\* timestep adds the net change of that number: max(0, d) on, max(0, -d) off,
\* nothing when the toggles cancel.
NetPulls == total_pulled_on - total_pulled_off
C18_NetPullConservation ==
    [][/\ NetPulls = Cardinality(SwitchesOn)
       /\ NetPulls' = Cardinality(SwitchesOn')
       /\ IsTimestep =>
              LET d == Cardinality(SwitchesOn') - Cardinality(SwitchesOn)
              IN  /\ total_pulled_on' = total_pulled_on + (IF d > 0 THEN d ELSE 0)
                  /\ total_pulled_off' = total_pulled_off + (IF d < 0 THEN -d ELSE 0)]_vars
C18_Witness ==
    /\ total_pulled_on = 2
    /\ total_pulled_off = 2
    /\ Cardinality(SwitchesOn) = 0
    /\ timestep = 2

\* C19: the two timestamps are unset together, set exactly when a pull was
\* counted, ordered 0 <= first <= last <= timestep, and first-pull, once set,
\* keeps its value until the next reset.
TimestampsConsistent ==
    /\ timestep_first_switch_pull = NaN <=> timestep_last_switch_pull = NaN
    /\ timestep_first_switch_pull # NaN <=> total_pulled_on + total_pulled_off > 0
    /\ timestep_first_switch_pull # NaN =>
          /\ 0 <= timestep_first_switch_pull
          /\ timestep_first_switch_pull <= timestep_last_switch_pull
          /\ timestep_last_switch_pull <= timestep
C19_TimestampsConsistent ==
    [][/\ TimestampsConsistent /\ TimestampsConsistent'
       /\ (~Reset /\ timestep_first_switch_pull # NaN)
              => timestep_first_switch_pull' = timestep_first_switch_pull]_vars
C19_Witness ==
    /\ timestep_first_switch_pull = 1
    /\ timestep_last_switch_pull = 2
    /\ timestep = 3
    /\ total_pulled_on + total_pulled_off >= 2

\* C20: reset sets timestep to 0 and a step adds exactly 1 after its
\* coordination pass: a pull in the k-th step is stamped k - 1, and a pull in
\* the first step gives first-pull 0, which is not the unset value.
C20_TimestepCounter ==
    [][/\ Reset => timestep' = 0
       /\ ~Reset =>
              /\ timestep' = timestep + 1
              /\ Cardinality(SwitchesOn') # Cardinality(SwitchesOn) =>
                     /\ timestep_last_switch_pull' = timestep' - 1
                     /\ timestep = 0 =>
                            /\ timestep_first_switch_pull' = 0
                            /\ timestep_first_switch_pull' # NaN]_vars
C20_Witness ==
    /\ timestep = 1
    /\ timestep_first_switch_pull = 0
    /\ timestep_last_switch_pull = 0
    /\ total_pulled_on = 1

\* ---- properties of what step returns (SpecReturns) ------------------------------------------------
\* C12: custom_map_update adds delta * GIVE_EXTERNAL_SWITCH_REWARD, the same
\* amount, to every agent's reward; with the flag at 0 every reward is left as
\* it was; afterwards prev_activated_switch_count is the count.
C12_GroupReward ==
    [][~Reset =>
          LET delta == Cardinality(SwitchesOn') - prev_activated_switch_count
          IN  /\ DOMAIN returned_rewards' = Agents
              /\ \A a \in Agents :
                    returned_rewards'[a]
                        = reward_this_turn'[a] + 10 * delta * GIVE_EXTERNAL_SWITCH_REWARD
              /\ GIVE_EXTERNAL_SWITCH_REWARD = 0 => returned_rewards' = reward_this_turn'
              /\ prev_activated_switch_count' = Cardinality(SwitchesOn')]_vars
C12_Witness ==
    /\ timestep = 1
    /\ prev_activated_switch_count = 1
    /\ returned_rewards = [a \in Agents |-> IF a = "agent-0" THEN 2 ELSE 0]
    /\ reward_this_turn = returned_rewards

\* the agent under whose id the last step returned its extra info
InfoAgent == CHOOSE a \in Agents : a \in DOMAIN returned_info

\* C13: a step adds 1 to total_successes when the reward of the first agent of
\* the action mapping is above 0.1 (1 tenth) and nothing otherwise, whatever
\* the other agents got; so it never decreases in an episode and is at most the
\* number of steps taken.
C13_SuccessCounter ==
    [][/\ total_successes <= timestep
       /\ total_successes' <= timestep'
       /\ ~Reset =>
              /\ \E a \in Agents : a \in DOMAIN returned_info'
              /\ total_successes' =
                     total_successes + (IF returned_rewards'[InfoAgent'] > 1 THEN 1 ELSE 0)
              /\ total_successes' >= total_successes]_vars
C13_Witness ==
    /\ timestep = 2
    /\ total_successes = 1
    /\ "agent-0" \in DOMAIN returned_info
    /\ returned_rewards["agent-0"] = 1
    /\ returned_rewards["agent-1"] = 2

\* C15: the info returned by a step has, under the first agent's id, the six
\* metric fields with the values the metrics have at the end of that step.
ExtraInfoKeys ==
    {"switches_on_at_termination", "total_pulled_on", "total_pulled_off",
     "timestep_first_switch_pull", "timestep_last_switch_pull", "total_successes"}
InfoIsCurrent ==
    /\ Cardinality(DOMAIN returned_info \cap Agents) = 1
    /\ DOMAIN returned_info[InfoAgent] = ExtraInfoKeys
    /\ returned_info[InfoAgent].switches_on_at_termination = switches_on_at_termination
    /\ returned_info[InfoAgent].total_pulled_on = total_pulled_on
    /\ returned_info[InfoAgent].total_pulled_off = total_pulled_off
    /\ returned_info[InfoAgent].timestep_first_switch_pull = timestep_first_switch_pull
    /\ returned_info[InfoAgent].timestep_last_switch_pull = timestep_last_switch_pull
    /\ returned_info[InfoAgent].total_successes = total_successes
C15_InfoDictionary == [][~Reset => InfoIsCurrent']_vars
C15_Witness ==
    /\ timestep = 2
    /\ "agent-1" \in DOMAIN returned_info
    /\ returned_info["agent-1"].total_pulled_on = 1
    /\ returned_info["agent-1"].total_pulled_off = 1
    /\ returned_info["agent-1"].timestep_first_switch_pull = 0
    /\ returned_info["agent-1"].timestep_last_switch_pull = 1
    /\ returned_info["agent-1"].total_successes = 2
====
